---- MODULE Spec2Model ----
(***************************************************************************)
(* Multi-camera motion / tripwire pipeline of src/src/main.py:             *)
(* CameraAgent (start, stop, set_roi, process, take_snapshot, geometry),   *)
(* OpencvImageProvider (streams), AlertLogModel (alerts) and               *)
(* SystemController (update_all, handle_alert and the QML slots).          *)
(*                                                                         *)
(* Time is counted in units of 0.1 s.  A handler runs to completion well   *)
(* inside one unit, so every time.time() read of one call returns `now`.   *)
(* Normalised tripwire coordinates are quarters (n stands for n/4), which  *)
(* are exact as floats, so int(n/4 * 640) is (n * 640) \div 4.             *)
(***************************************************************************)
EXTENDS Integers, Sequences, FiniteSets, TLC

\* ---- program constants ----
FrameW == 640
FrameH == 480
Cooldown == 20
FpsWindow == 10
DefaultSensitivity == 1000

\* ---- bounds of the model ----
StartTime == 100
MaxElapsed == 21
FileLen == 3
MaxAlerts == 2
MaxFrameCount == 3
GridMax == 4

\* cameras: the parsed "cameras" list; order, agent: the agents dict (its
\* insertion order and its values); streams: the image provider's dict;
\* alerts: the alert log; now: the wall clock; out: what the last handler call
\* did to each camera; call: the last call made to the controller or to an
\* agent and what it returned; geom: the last call of the geometry test.
VARIABLES cameras, order, agent, streams, alerts, now, out, call, geom

vars == <<cameras, order, agent, streams, alerts, now, out, call, geom>>

\* ---- sources and the environment behind cv2.VideoCapture ----
SrcFile == [type |-> "str", scheme |-> "path"]
SrcDevice == [type |-> "int", scheme |-> "index"]
SrcRtsp == [type |-> "str", scheme |-> "rtsp"]
SrcHttp == [type |-> "str", scheme |-> "http"]

\* isinstance(self.source, str) and not self.source.startswith("rtsp")
\* mutant: no source is rewound
IsLoopedSource_Never(src) == FALSE

\* isinstance(self.source, str) and not self.source.startswith("rtsp")
IsLoopedSource(src) == src.type = "str" /\ src.scheme # "rtsp"

\* a capture backed by a file on disk has a frame position and an end
IsSeekable(src) == src.scheme = "path"

NoCap == [present |-> FALSE, opened |-> FALSE, pos |-> 0]

\* scenes a frame can show: each is the set of blobs visible in it
BlobA == [x |-> 100, y |-> 100, w |-> 40, h |-> 25, area |-> 1000]
BlobB == [x |-> 300, y |-> 200, w |-> 50, h |-> 50, area |-> 2500]
BlobC == [x |-> 500, y |-> 400, w |-> 20, h |-> 20, area |-> 400]
AllBlobs == <<BlobA, BlobB, BlobC>>
SceneIds == {1, 2, 3}
Scene(i) == CASE i = 1 -> {}
              [] i = 2 -> {BlobA, BlobC}
              [] i = 3 -> {BlobA, BlobB}
              [] OTHER -> {}

\* the picture stored in frame k of the file
FrameImage(k) == ((k - 1) % 3) + 1

\* absdiff + threshold + dilate + findContours: the blobs on which two frames differ
Contours(prev, gray) ==
    SelectSeq(AllBlobs, LAMBDA b : (b \in Scene(prev)) # (b \in Scene(gray)))

\* ---- geometry ----
\* the denominator of line_segment_intersection
Denom(p1, p2, p3, p4) ==
    (p1[1] - p2[1]) * (p3[2] - p4[2]) - (p1[2] - p2[2]) * (p3[1] - p4[1])

\* mutant: the parameters must lie strictly inside the unit interval
line_segment_intersection_Strict(p1, p2, p3, p4) ==
    LET denom == Denom(p1, p2, p3, p4)
        tn == (p1[1] - p3[1]) * (p3[2] - p4[2]) - (p1[2] - p3[2]) * (p3[1] - p4[1])
        un == 0 - ((p1[1] - p2[1]) * (p1[2] - p3[2]) - (p1[2] - p2[2]) * (p1[1] - p3[1]))
        InUnit(n) == IF denom > 0 THEN 0 < n /\ n < denom
                                  ELSE denom < n /\ n < 0
    IN IF denom = 0 THEN FALSE ELSE InUnit(tn) /\ InUnit(un)

\* t = tn / denom and u = un / denom lie in [0, 1]; abs(denom) < 1e-10 is
\* denom = 0 on integer coordinates
line_segment_intersection(p1, p2, p3, p4) ==
    LET x1 == p1[1]  y1 == p1[2]
        x2 == p2[1]  y2 == p2[2]
        x3 == p3[1]  y3 == p3[2]
        x4 == p4[1]  y4 == p4[2]
        denom == (x1 - x2) * (y3 - y4) - (y1 - y2) * (x3 - x4)
        tn == (x1 - x3) * (y3 - y4) - (y1 - y3) * (x3 - x4)
        un == 0 - ((x1 - x2) * (y1 - y3) - (y1 - y2) * (x1 - x3))
        InUnit(n) == IF denom > 0 THEN 0 <= n /\ n <= denom
                                  ELSE denom <= n /\ n <= 0
    IN IF denom = 0 THEN FALSE ELSE InUnit(tn) /\ InUnit(un)

line_intersects_rect(p1, p2, rect) ==
    LET x == rect[1]  y == rect[2]  w == rect[3]  h == rect[4]
        x1 == p1[1]  y1 == p1[2]
        x2 == p2[1]  y2 == p2[2]
    IN \/ (x <= x1 /\ x1 <= x + w /\ y <= y1 /\ y1 <= y + h)
       \/ (x <= x2 /\ x2 <= x + w /\ y <= y2 /\ y2 <= y + h)
       \/ line_segment_intersection(p1, p2, <<x, y>>, <<x + w, y>>)
       \/ line_segment_intersection(p1, p2, <<x, y + h>>, <<x + w, y + h>>)
       \/ line_segment_intersection(p1, p2, <<x, y>>, <<x, y + h>>)
       \/ line_segment_intersection(p1, p2, <<x + w, y>>, <<x + w, y + h>>)

\* int(lx * 640), int(ly * 480) for a coordinate of n quarters
ToPixel(n, size) == (n * size) \div 4

RoiP1(roi) == <<ToPixel(roi[1], FrameW), ToPixel(roi[2], FrameH)>>
RoiP2(roi) == <<ToPixel(roi[3], FrameW), ToPixel(roi[4], FrameH)>>

BoundingRect(c) == <<c.x, c.y, c.w, c.h>>

\* ---- image sink and alert log ----
\* An image is recorded by the frame it shows, the number of boxed regions,
\* the ALERT flash and whether the tripwire line is drawn; the sensitivity and
\* FPS captions are not part of the record.
black_frame == [kind |-> "black", scene |-> 0, boxes |-> 0, alert |-> FALSE, line |-> FALSE]

update_image(st, stream_id, img) ==
    [k \in (DOMAIN st) \cup {stream_id} |-> IF k = stream_id THEN img ELSE st[k]]

requestImage(st, id) == IF id \in DOMAIN st THEN st[id] ELSE black_frame

\* strftime("%H:%M:%S"): whole seconds
FormatTime(t) == t \div 10

\* mutant: the record is put at the end of the list
add_alert_Append(al, camera_name, message, t) ==
    al \o <<[camera |-> camera_name, message |-> message, time |-> FormatTime(t)]>>

\* self.alerts.insert(0, {...})
add_alert(al, camera_name, message, t) ==
    <<[camera |-> camera_name, message |-> message, time |-> FormatTime(t)]>> \o al

TripwireMsg(area) == [kind |-> "tripwire", info |-> area]
SnapshotMsg(name, t) == [kind |-> "snapshot", info |-> FormatTime(t)]

\* ---- configuration ----
LineDiag == <<0, 0, 4, 4>>
LineMid == <<0, 2, 4, 2>>
LineBottom == <<0, 4, 4, 4>>

\* a "roi" entry of the configuration that is not a number (a JSON string):
\* int(entry * 640) raises ValueError
NotNumber == 0 - 1
LineMalformed == <<NotNumber, NotNumber, NotNumber, NotNumber>>

RoiIsNumeric(roi) == \A i \in 1..Len(roi) : roi[i] # NotNumber

ConfigTwo ==
    << [id |-> "cam1", name |-> "Door", source |-> SrcFile, roi |-> LineDiag],
       [id |-> "cam2", name |-> "Yard", source |-> SrcDevice, sensitivity |-> 2000] >>

\* CameraAgent.__init__ (self.running is never read and is left out)
NewAgent(config) ==
    [ name |-> config.name,
      source |-> config.source,
      sensitivity |-> IF "sensitivity" \in DOMAIN config THEN config.sensitivity
                      ELSE DefaultSensitivity,
      roi_line |-> IF "roi" \in DOMAIN config THEN config.roi ELSE <<>>,
      cap |-> NoCap,
      active |-> FALSE,
      prev_frame |-> 0,
      fps |-> 0,
      frame_count |-> 0,
      last_time |-> StartTime,
      last_alert_time |-> 0 ]

Ids == {order[i] : i \in 1..Len(order)}

\* What the last handler call did to each camera: the method that ran on its
\* agent (op), whether its frame read succeeded (ret; for start: whether a
\* capture was opened, i.e. the agent was not active), the file frame number
\* and the scene read, the number of images handed to the image sink, the
\* alert messages handed to handle_alert in order, whether cap.set rewound,
\* the value take_snapshot returned (<<>> is ""), and whether the call ended
\* in an exception.
Idle == [op |-> "none", ret |-> FALSE, frame |-> 0, image |-> 0, emits |-> 0,
         msgs |-> <<>>, rewound |-> FALSE, result |-> <<>>, raised |-> FALSE]

AllIdle == [c \in Ids |-> Idle]

\* a call, the camera id it was given and the value it returned to its caller
Called(op, id, result) == [op |-> op, id |-> id, result |-> result]
NoCall == Called("none", "", "None")

\* the four edges line_intersects_rect tests, as pairs of end points
Edges(rect) ==
    LET x == rect[1]  y == rect[2]  w == rect[3]  h == rect[4] IN
    [top |-> <<<<x, y>>, <<x + w, y>>>>, bottom |-> <<<<x, y + h>>, <<x + w, y + h>>>>,
     left |-> <<<<x, y>>, <<x, y + h>>>>, right |-> <<<<x + w, y>>, <<x + w, y + h>>>>]

EdgeNames == {"top", "bottom", "left", "right"}

\* a call of the geometry test: its arguments, whether it was made, what
\* line_intersects_rect returned and what line_segment_intersection returned
\* for each edge
NoGeom == [p1 |-> <<0, 0>>, p2 |-> <<0, 0>>, rect |-> <<0, 0, 1, 1>>, done |-> FALSE,
           result |-> FALSE, edge |-> [e \in EdgeNames |-> FALSE]]

\* ---- CameraAgent ----
\* mutant: an open that fails leaves the agent stopped
start_FailsClosed(a, opens) ==
    IF a.active \/ ~opens THEN a
    ELSE [a EXCEPT !.cap = [present |-> TRUE, opened |-> opens, pos |-> 0],
                   !.active = TRUE]

start(a, opens) ==
    IF a.active THEN a
    ELSE [a EXCEPT !.cap = [present |-> TRUE, opened |-> opens, pos |-> 0],
                   !.active = TRUE]

\* mutant: the capture is not released
stop_KeepsCap(a) == [a EXCEPT !.active = FALSE]

stop(a) == [a EXCEPT !.active = FALSE, !.cap = NoCap]

set_roi(a, points) == [a EXCEPT !.roi_line = points]

\* mutant: a read of a file does not move to the next frame
CapRead_NoAdvance(a, rd) ==
    IF ~a.cap.opened
    THEN [ret |-> FALSE, frame |-> 0, image |-> 0, cap |-> a.cap]
    ELSE IF IsSeekable(a.source)
    THEN IF a.cap.pos < FileLen
         THEN [ret |-> TRUE, frame |-> a.cap.pos + 1, image |-> FrameImage(a.cap.pos + 1),
               cap |-> a.cap]
         ELSE [ret |-> FALSE, frame |-> 0, image |-> 0, cap |-> a.cap]
    ELSE [ret |-> rd # 0, frame |-> 0, image |-> rd, cap |-> a.cap]

\* cap.read(): rd is what a live source delivers now (0: nothing, else a scene)
CapRead(a, rd) ==
    IF ~a.cap.opened
    THEN [ret |-> FALSE, frame |-> 0, image |-> 0, cap |-> a.cap]
    ELSE IF IsSeekable(a.source)
    THEN IF a.cap.pos < FileLen
         THEN [ret |-> TRUE, frame |-> a.cap.pos + 1, image |-> FrameImage(a.cap.pos + 1),
               cap |-> [a.cap EXCEPT !.pos = @ + 1]]
         ELSE [ret |-> FALSE, frame |-> 0, image |-> 0, cap |-> a.cap]
    ELSE [ret |-> rd # 0, frame |-> 0, image |-> rd, cap |-> a.cap]

\* mutant: the file is rewound to its second frame
CapRewind_OffByOne(a, cap) == IF IsSeekable(a.source) THEN [cap EXCEPT !.pos = 1] ELSE cap

\* cap.set(cv2.CAP_PROP_POS_FRAMES, 0)
CapRewind(a, cap) == IF IsSeekable(a.source) THEN [cap EXCEPT !.pos = 0] ELSE cap

\* mutant: the cooldown test is dropped
TripwireArmed_NoCooldown(roi_line, t, last_alert_time) == Len(roi_line) = 4

\* len(self.roi_line) == 4 and time.time() - self.last_alert_time > 2.0
TripwireArmed(roi_line, t, last_alert_time) ==
    Len(roi_line) = 4 /\ t - last_alert_time > Cooldown

\* mutant: the cooldown is tested against the stamp the call started with
RECURSIVE ContourLoop_StaleStamp(_, _, _, _, _)
ContourLoop_StaleStamp(cs, i, a, t, acc) ==
    IF i > Len(cs) THEN acc
    ELSE LET c == cs[i] IN
         IF c.area < a.sensitivity THEN ContourLoop_StaleStamp(cs, i + 1, a, t, acc)
         ELSE LET boxed == [acc EXCEPT !.boxes = @ + 1] IN
              IF TripwireArmed(a.roi_line, t, a.last_alert_time) /\ ~RoiIsNumeric(a.roi_line)
              THEN [boxed EXCEPT !.raised = TRUE]
              ELSE
              IF /\ TripwireArmed(a.roi_line, t, a.last_alert_time)
                 /\ line_intersects_rect(RoiP1(a.roi_line), RoiP2(a.roi_line), BoundingRect(c))
              THEN ContourLoop_StaleStamp(cs, i + 1, a, t,
                       [boxed EXCEPT !.msgs = Append(@, TripwireMsg(c.area)),
                                     !.last_alert_time = t,
                                     !.flashed = TRUE])
              ELSE ContourLoop_StaleStamp(cs, i + 1, a, t, boxed)

\* the loop over the contours of one frame; int(lx1 * 640) raises on a
\* malformed line and ends the loop
RECURSIVE ContourLoop(_, _, _, _, _)
ContourLoop(cs, i, a, t, acc) ==
    IF i > Len(cs) THEN acc
    ELSE LET c == cs[i] IN
         IF c.area < a.sensitivity THEN ContourLoop(cs, i + 1, a, t, acc)
         ELSE LET boxed == [acc EXCEPT !.boxes = @ + 1] IN
              IF TripwireArmed(a.roi_line, t, boxed.last_alert_time) /\ ~RoiIsNumeric(a.roi_line)
              THEN [boxed EXCEPT !.raised = TRUE]
              ELSE
              IF /\ TripwireArmed(a.roi_line, t, boxed.last_alert_time)
                 /\ line_intersects_rect(RoiP1(a.roi_line), RoiP2(a.roi_line), BoundingRect(c))
              THEN ContourLoop(cs, i + 1, a, t,
                       [boxed EXCEPT !.msgs = Append(@, TripwireMsg(c.area)),
                                     !.last_alert_time = t,
                                     !.flashed = TRUE])
              ELSE ContourLoop(cs, i + 1, a, t, boxed)

\* mutant: the window reset stamps last_alert_time instead of last_time
FpsUpdate_WrongField(a, t) ==
    IF t - a.last_time >= FpsWindow
    THEN [a EXCEPT !.fps = a.frame_count + 1, !.frame_count = 0, !.last_alert_time = t]
    ELSE [a EXCEPT !.frame_count = @ + 1]

\* frame_count += 1 and the one-second window
FpsUpdate(a, t) ==
    IF t - a.last_time >= FpsWindow
    THEN [a EXCEPT !.fps = a.frame_count + 1, !.frame_count = 0, !.last_time = t]
    ELSE [a EXCEPT !.frame_count = @ + 1]

\* mutant: the early return is missing
CanProcess_Always(a) == TRUE

\* not (not self.active or not self.cap or not self.cap.isOpened())
CanProcess(a) == a.active /\ a.cap.present /\ a.cap.opened

\* one process() call: the agent afterwards, the images and alert messages it
\* hands to the sinks, and what the call did. On a malformed line the call
\* raises inside the contour loop (before prev_frame is replaced) or, when no
\* region armed the test, where the line is drawn (after it is replaced).
process(a, rd, t) ==
    IF ~CanProcess(a)
    THEN [agent |-> a, images |-> <<>>, msgs |-> <<>>,
          out |-> [Idle EXCEPT !.op = "process"]]
    ELSE LET r == CapRead(a, rd) IN
         IF ~r.ret
         THEN [agent |-> [a EXCEPT !.cap = IF IsLoopedSource(a.source)
                                            THEN CapRewind(a, r.cap) ELSE r.cap],
               images |-> <<>>, msgs |-> <<>>,
               out |-> [Idle EXCEPT !.op = "process",
                                    !.rewound = IsLoopedSource(a.source)]]
         ELSE IF a.prev_frame = 0
         THEN [agent |-> [a EXCEPT !.cap = r.cap, !.prev_frame = r.image],
               images |-> <<>>, msgs |-> <<>>,
               out |-> [Idle EXCEPT !.op = "process", !.ret = TRUE,
                                    !.frame = r.frame, !.image = r.image]]
         ELSE LET acc == ContourLoop(Contours(a.prev_frame, r.image), 1, a, t,
                             [last_alert_time |-> a.last_alert_time, msgs |-> <<>>,
                              boxes |-> 0, flashed |-> FALSE, raised |-> FALSE])
                  img == [kind |-> "frame", scene |-> r.image, boxes |-> acc.boxes,
                          alert |-> acc.flashed, line |-> Len(a.roi_line) = 4]
                  a0 == [a EXCEPT !.cap = r.cap,
                                  !.last_alert_time = acc.last_alert_time]
                  a1 == [a0 EXCEPT !.prev_frame = r.image]
                  failed == [Idle EXCEPT !.op = "process", !.ret = TRUE,
                                         !.frame = r.frame, !.image = r.image,
                                         !.msgs = acc.msgs, !.raised = TRUE]
              IN IF acc.raised
                 THEN [agent |-> a0, images |-> <<>>, msgs |-> acc.msgs, out |-> failed]
                 ELSE IF Len(a.roi_line) = 4 /\ ~RoiIsNumeric(a.roi_line)
                 THEN [agent |-> a1, images |-> <<>>, msgs |-> acc.msgs, out |-> failed]
                 ELSE [agent |-> FpsUpdate(a1, t), images |-> <<img>>, msgs |-> acc.msgs,
                       out |-> [Idle EXCEPT !.op = "process", !.ret = TRUE,
                                            !.frame = r.frame, !.image = r.image,
                                            !.emits = 1, !.msgs = acc.msgs]]

\* mutant: a file name is returned whether or not the read delivered a frame
take_snapshot_AlwaysNames(a, rd, t) ==
    [agent |-> a, result |-> <<a.name, FormatTime(t)>>, ret |-> FALSE, frame |-> 0,
     image |-> 0]

take_snapshot(a, rd, t) ==
    IF a.cap.present
    THEN LET r == CapRead(a, rd) IN
         IF r.ret
         THEN [agent |-> [a EXCEPT !.cap = r.cap], result |-> <<a.name, FormatTime(t)>>,
               ret |-> TRUE, frame |-> r.frame, image |-> r.image]
         ELSE [agent |-> a, result |-> <<>>, ret |-> FALSE, frame |-> 0, image |-> 0]
    ELSE [agent |-> a, result |-> <<>>, ret |-> FALSE, frame |-> 0, image |-> 0]

\* ---- SystemController ----
RECURSIVE handle_alerts(_, _, _, _)
handle_alerts(al, cam_name, msgs, t) ==
    IF msgs = <<>> THEN al
    ELSE handle_alerts(add_alert(al, cam_name, Head(msgs), t), cam_name, Tail(msgs), t)

RECURSIVE update_images(_, _, _)
update_images(st, id, images) ==
    IF images = <<>> THEN st
    ELSE update_images(update_image(st, id, Head(images)), id, Tail(images))

\* update_all: process() on every agent in dict order; an exception of a
\* process() call is not caught and ends the loop
RECURSIVE update_all(_, _, _, _)
update_all(i, w, rd, t) ==
    IF i > Len(order) THEN w
    ELSE LET id == order[i]
             r == process(w.agent[id], rd[id], t)
             w1 == [agent |-> [w.agent EXCEPT ![id] = r.agent],
                    streams |-> update_images(w.streams, id, r.images),
                    alerts |-> handle_alerts(w.alerts, r.agent.name, r.msgs, t),
                    out |-> [w.out EXCEPT ![id] = r.out],
                    raised |-> r.out.raised]
         IN IF r.out.raised THEN w1 ELSE update_all(i + 1, w1, rd, t)

\* a live source has something to deliver only to a call that reads it
ReadsLive(a) == a.cap.present /\ a.cap.opened /\ ~IsSeekable(a.source)

LiveInputs(need) == {rd \in [Ids -> {0} \cup SceneIds] : \A c \in Ids : c \notin need => rd[c] = 0}

\* CameraAgent(cfg, ...) reads cfg["id"], cfg["name"] and cfg["source"]: a
\* missing key raises KeyError
IsValidEntry(e) == {"id", "name", "source"} \subseteq DOMAIN e

\* the entries the loop of __init__ turns into agents: the try block encloses
\* the whole loop, so the first KeyError ends it
LoadedEntries(cfg) ==
    LET bad == {i \in 1..Len(cfg) : ~IsValidEntry(cfg[i])} IN
    IF bad = {} THEN cfg
    ELSE SubSeq(cfg, 1, (CHOOSE i \in bad : \A j \in bad : i <= j) - 1)

\* SystemController.__init__: one agent per loaded entry, in list order (the
\* ids of a list are distinct)
LoadConfig(cfg) ==
    LET ok == LoadedEntries(cfg) IN
    /\ order = [i \in 1..Len(ok) |-> ok[i].id]
    /\ agent = [c \in {ok[i].id : i \in 1..Len(ok)} |->
                  NewAgent(ok[CHOOSE i \in 1..Len(ok) : ok[i].id = c])]
    /\ streams = <<>>
    /\ alerts = <<>>
    /\ now = StartTime
    /\ out = [c \in {ok[i].id : i \in 1..Len(ok)} |-> Idle]
    /\ cameras = cfg
    /\ call = NoCall
    /\ geom = NoGeom

\* a controller over one camera: the file camera or the device camera
Init == LoadConfig(<<ConfigTwo[1]>>) \/ LoadConfig(<<ConfigTwo[2]>>)

ConfigClock == << [id |-> "cam3", name |-> "Gate", source |-> SrcDevice] >>

InitClock == LoadConfig(ConfigClock)

Tick ==
    \E rd \in LiveInputs({c \in Ids : agent[c].active /\ ReadsLive(agent[c])}) :
        \E w \in {update_all(1, [agent |-> agent, streams |-> streams, alerts |-> alerts,
                                  out |-> AllIdle, raised |-> FALSE], rd, now)} :
           /\ Len(w.alerts) <= MaxAlerts
           /\ \A c \in Ids : w.agent[c].frame_count <= MaxFrameCount
           /\ agent' = w.agent
           /\ streams' = w.streams
           /\ alerts' = w.alerts
           /\ out' = w.out
           /\ call' = Called("update_all", "", IF w.raised THEN "Exception" ELSE "None")
           /\ UNCHANGED <<cameras, geom, order, now>>

StartAgent(id) ==
    \E opens \in BOOLEAN :
        /\ agent' = [agent EXCEPT ![id] = start(@, opens)]
        /\ out' = [AllIdle EXCEPT ![id].op = "start", ![id].ret = ~agent[id].active]
        /\ UNCHANGED <<cameras, geom, order, streams, alerts, now>>

\* mutant: stop() does not hand the black frame to the image provider
StopAgent_NoPlaceholder(id) ==
    /\ agent' = [agent EXCEPT ![id] = stop(@)]
    /\ out' = [AllIdle EXCEPT ![id].op = "stop"]
    /\ UNCHANGED <<cameras, geom, order, streams, alerts, now>>

StopAgent(id) ==
    /\ agent' = [agent EXCEPT ![id] = stop(@)]
    /\ streams' = update_image(streams, id, black_frame)
    /\ out' = [AllIdle EXCEPT ![id].op = "stop", ![id].emits = 1]
    /\ UNCHANGED <<cameras, geom, order, alerts, now>>

\* agent.start() and agent.stop() called on the agent itself
Start(id) == StartAgent(id) /\ call' = Called("start", id, "None")

Stop(id) == StopAgent(id) /\ call' = Called("stop", id, "None")

\* mutant: an id that is not in the dict falls back to the first camera
toggleCamera_Fallback(cam_id) ==
    LET id == IF cam_id \in Ids THEN cam_id ELSE order[1] IN
    /\ call' = Called("toggleCamera", cam_id, "None")
    /\ IF agent[id].active THEN StopAgent(id) ELSE StartAgent(id)

toggleCamera(cam_id) ==
    /\ call' = Called("toggleCamera", cam_id, "None")
    /\ IF cam_id \in Ids
       THEN IF agent[cam_id].active THEN StopAgent(cam_id) ELSE StartAgent(cam_id)
       ELSE /\ out' = AllIdle
            /\ UNCHANGED <<cameras, geom, order, agent, streams, alerts, now>>

captureSnapshot(cam_id) ==
    /\ call' = Called("captureSnapshot", cam_id, "None")
    /\ IF cam_id \in Ids
       THEN \E rd \in (IF ReadsLive(agent[cam_id]) THEN {0} \cup SceneIds ELSE {0}) :
              LET s == take_snapshot(agent[cam_id], rd, now) IN
              /\ agent' = [agent EXCEPT ![cam_id] = s.agent]
              /\ alerts' = IF s.result # <<>>
                           THEN add_alert(alerts, agent[cam_id].name,
                                          SnapshotMsg(agent[cam_id].name, now), now)
                           ELSE alerts
              /\ Len(alerts') <= MaxAlerts
              /\ out' = [AllIdle EXCEPT ![cam_id].op = "snapshot", ![cam_id].ret = s.ret,
                                        ![cam_id].frame = s.frame, ![cam_id].image = s.image,
                                        ![cam_id].result = s.result,
                                        ![cam_id].msgs = IF s.result # <<>>
                                                         THEN <<SnapshotMsg(agent[cam_id].name, now)>>
                                                         ELSE <<>>]
              /\ UNCHANGED <<cameras, geom, order, streams, now>>
       ELSE /\ out' = AllIdle
            /\ UNCHANGED <<cameras, geom, order, agent, streams, alerts, now>>

\* agent.take_snapshot() called on the agent itself: nothing is logged
TakeSnapshot(id) ==
    \E rd \in (IF ReadsLive(agent[id]) THEN {0} \cup SceneIds ELSE {0}) :
        LET s == take_snapshot(agent[id], rd, now) IN
        /\ agent' = [agent EXCEPT ![id] = s.agent]
        /\ out' = [AllIdle EXCEPT ![id].op = "snapshot", ![id].ret = s.ret,
                                  ![id].frame = s.frame, ![id].image = s.image,
                                  ![id].result = s.result]
        /\ call' = Called("take_snapshot", id, IF s.result = <<>> THEN "" ELSE "filename")
        /\ UNCHANGED <<cameras, geom, order, streams, alerts, now>>

setRoi(cam_id, points) ==
    /\ call' = Called("setRoi", cam_id, "None")
    /\ agent' = IF cam_id \in Ids THEN [agent EXCEPT ![cam_id] = set_roi(@, points)] ELSE agent
    /\ out' = IF cam_id \in Ids THEN [AllIdle EXCEPT ![cam_id].op = "setRoi"] ELSE AllIdle
    /\ UNCHANGED <<cameras, geom, order, streams, alerts, now>>

setSensitivity(cam_id, val) ==
    /\ call' = Called("setSensitivity", cam_id, "None")
    /\ agent' = IF cam_id \in Ids THEN [agent EXCEPT ![cam_id].sensitivity = val] ELSE agent
    /\ out' = IF cam_id \in Ids THEN [AllIdle EXCEPT ![cam_id].op = "setSensitivity"] ELSE AllIdle
    /\ UNCHANGED <<cameras, geom, order, streams, alerts, now>>

\* the wall clock moves between handler calls
AdvanceTime ==
    \E d \in {10, 11} :
        /\ now + d <= StartTime + MaxElapsed
        /\ now' = now + d
        /\ out' = AllIdle
        /\ call' = NoCall
        /\ UNCHANGED <<cameras, geom, order, agent, streams, alerts>>

CamIds == Ids \cup {"nocam"}

\* every handler of the controller and of its agents, the clock standing still
Next ==
    \/ Tick
    \/ \E id \in Ids : Start(id)
    \/ \E id \in Ids : Stop(id)
    \/ \E id \in CamIds : toggleCamera(id)
    \/ \E id \in CamIds : captureSnapshot(id)
    \/ \E id \in CamIds, points \in {LineDiag, LineMid, LineBottom} : setRoi(id, points)
    \/ \E id \in CamIds, val \in {1000, 2000} : setSensitivity(id, val)

Spec == Init /\ [][Next]_vars

\* the timer sweep and the controls that shape alerts, with the clock running
NextClock ==
    \/ Tick
    \/ \E id \in Ids : toggleCamera(id)
    \/ \E id \in Ids, points \in {LineDiag, LineBottom} : setRoi(id, points)
    \/ \E id \in Ids, val \in {1000, 2000} : setSensitivity(id, val)
    \/ AdvanceTime

SpecClock == InitClock /\ [][NextClock]_vars

\* configurations of several cameras: two that can alert in one sweep, a first
\* camera whose line is malformed (with a sensitivity that lets regions
\* survive, and with one that lets none survive), and lists with an entry
\* that lacks its id or its source
EntryHall == [id |-> "cam4", name |-> "Hall", source |-> SrcDevice, roi |-> LineDiag]
EntryLift == [id |-> "cam5", name |-> "Lift", source |-> SrcFile, roi |-> LineMalformed]
EntryNoId == [name |-> "Shed", source |-> SrcDevice]
EntryNoSource == [id |-> "cam6", name |-> "Roof"]

ConfigPair == <<ConfigTwo[1], EntryHall>>
ConfigMalformed == <<EntryLift, ConfigTwo[1]>>
ConfigMalformedQuiet == <<EntryLift @@ [sensitivity |-> 5000], ConfigTwo[1]>>
ConfigNoId == <<ConfigTwo[1], EntryNoId, ConfigTwo[2]>>
ConfigNoSource == <<EntryNoSource, ConfigTwo[1]>>

ConfigLists == {ConfigPair, ConfigMalformed, ConfigMalformedQuiet, ConfigNoId, ConfigNoSource}

InitCameras == \E cfg \in ConfigLists : LoadConfig(cfg)

\* the timer sweep and the start/stop control over the cameras of a list
NextCameras ==
    \/ Tick
    \/ \E id \in CamIds : toggleCamera(id)

SpecCameras == InitCameras /\ [][NextCameras]_vars

\* the geometry test on its own: every segment and every rectangle of
\* positive width and height on a grid
Points == (0..GridMax) \X (0..GridMax)
Rects == {r \in (0..GridMax) \X (0..GridMax) \X (1..GridMax) \X (1..GridMax) :
            r[1] + r[3] <= GridMax /\ r[2] + r[4] <= GridMax}

InitGeom ==
    /\ \E p1 \in Points, p2 \in Points, rect \in Rects :
           geom = [NoGeom EXCEPT !.p1 = p1, !.p2 = p2, !.rect = rect]
    /\ cameras = <<>>
    /\ order = <<>>
    /\ agent = <<>>
    /\ streams = <<>>
    /\ alerts = <<>>
    /\ now = StartTime
    /\ out = <<>>
    /\ call = NoCall

GeomApply ==
    /\ ~geom.done
    /\ geom' = [geom EXCEPT
                  !.done = TRUE,
                  !.result = line_intersects_rect(geom.p1, geom.p2, geom.rect),
                  !.edge = [e \in EdgeNames |->
                              line_segment_intersection(geom.p1, geom.p2,
                                  Edges(geom.rect)[e][1], Edges(geom.rect)[e][2])]]
    /\ UNCHANGED <<cameras, order, agent, streams, alerts, now, out, call>>

NextGeom == GeomApply

SpecGeom == InitGeom /\ [][NextGeom]_vars

\* one camera on each kind of source: a file, a device, an rtsp URI, an http URI
ConfigSources ==
    {<<[id |-> "cam7", name |-> "Lane", source |-> src, roi |-> LineDiag]>> :
        src \in {SrcFile, SrcDevice, SrcRtsp, SrcHttp}}

InitSources == \E cfg \in ConfigSources : LoadConfig(cfg)

NextSources ==
    \/ Tick
    \/ \E id \in Ids : toggleCamera(id)

SpecSources == InitSources /\ [][NextSources]_vars

\* a file camera that is started and never stopped, swept by the timer, with
\* snapshots taken in between; the QTimer fires every 30 ms for as long as
\* the program runs
LoopCam == ConfigTwo[1].id

InitLoop == LoadConfig(<<ConfigTwo[1]>>)

NextLoop ==
    \/ Tick
    \/ Start(LoopCam)
    \/ TakeSnapshot(LoopCam)

SpecLoop == InitLoop /\ [][NextLoop]_vars /\ WF_vars(Tick)

\* ---- properties ----
IsTripwire(m) == m.kind = "tripwire"

\* a surviving motion region of the frame `image` crosses the configured line of a
Crossing(a, image) ==
    /\ a.prev_frame # 0
    /\ Len(a.roi_line) = 4
    /\ \E i \in 1..Len(Contours(a.prev_frame, image)) :
          LET c == Contours(a.prev_frame, image)[i] IN
          /\ c.area >= a.sensitivity
          /\ line_intersects_rect(RoiP1(a.roi_line), RoiP2(a.roi_line), BoundingRect(c))

TripwireRecords(cam_name) ==
    SelectSeq(alerts, LAMBDA r : r.camera = cam_name /\ IsTripwire(r.message))

\* C1: a process() call emits a tripwire alert only when more than the 2.0 s
\* cooldown has passed since the camera's last_alert_time, and then stamps
\* last_alert_time; a qualifying crossing alerts exactly when the cooldown has
\* passed; so two tripwire records of one camera in the log (whole seconds)
\* are at least two seconds apart.
C1_Cooldown ==
    [][\A c \in Ids :
         /\ (out'[c].op = "process" /\ out'[c].ret) =>
               /\ (out'[c].msgs # <<>> =>
                      /\ now - agent[c].last_alert_time > Cooldown
                      /\ agent'[c].last_alert_time = now)
               /\ (Crossing(agent[c], out'[c].image) =>
                      (Len(out'[c].msgs) = 1 <=> now - agent[c].last_alert_time > Cooldown))
         /\ LET recs == TripwireRecords(agent[c].name)' IN
            \A i, j \in 1..Len(recs) : i < j => recs[i].time - recs[j].time >= 2
    ]_vars

\* two tripwire alerts of one camera, the second 2.1 s after the first
C1_Witness ==
    \E c \in Ids :
        /\ Len(TripwireRecords(agent[c].name)) = 2
        /\ now = StartTime + 21
        /\ agent[c].last_alert_time = now
        /\ out[c].op = "process" /\ Len(out[c].msgs) = 1

\* C2: one process() call emits at most one alert, the one of the first
\* surviving region that crosses the line, however many regions cross.
C2_OneAlertPerTick ==
    [][\A c \in Ids : out'[c].op = "process" =>
         /\ Len(out'[c].msgs) <= 1
         /\ Len(alerts') <= Len(alerts) + 1
         /\ out'[c].msgs # <<>> =>
               LET cs == Contours(agent[c].prev_frame, out'[c].image)
                   first == CHOOSE i \in 1..Len(cs) :
                              /\ cs[i].area >= agent[c].sensitivity
                              /\ line_intersects_rect(RoiP1(agent[c].roi_line),
                                     RoiP2(agent[c].roi_line), BoundingRect(cs[i]))
                              /\ \A k \in 1..(i - 1) :
                                    ~(/\ cs[k].area >= agent[c].sensitivity
                                      /\ line_intersects_rect(RoiP1(agent[c].roi_line),
                                             RoiP2(agent[c].roi_line), BoundingRect(cs[k])))
               IN Crossing(agent[c], out'[c].image)
                  /\ out'[c].msgs = <<TripwireMsg(cs[first].area)>>
    ]_vars

\* a frame with two boxed regions, both on the diagonal line, and one alert
C2_Witness ==
    \E c \in Ids :
        /\ out[c].op = "process" /\ Len(out[c].msgs) = 1
        /\ agent[c].roi_line = LineDiag
        /\ c \in DOMAIN streams /\ streams[c].boxes = 2 /\ streams[c].alert

\* C4: last_alert_time changes only in a process() call that emits an alert;
\* a process() call with no line, or inside the cooldown, or with no crossing
\* region emits no alert and leaves last_alert_time alone.
C4_NoAlertNoStamp ==
    [][\A c \in Ids :
         /\ agent'[c].last_alert_time # agent[c].last_alert_time =>
               /\ out'[c].op = "process"
               /\ out'[c].msgs # <<>>
               /\ agent'[c].last_alert_time = now
         /\ (/\ out'[c].op = "process"
             /\ \/ Len(agent[c].roi_line) # 4
                \/ now - agent[c].last_alert_time <= Cooldown
                \/ ~Crossing(agent[c], out'[c].image)) =>
               /\ out'[c].msgs = <<>>
               /\ alerts' = alerts
               /\ agent'[c].last_alert_time = agent[c].last_alert_time
    ]_vars

\* a crossing inside the cooldown: regions boxed on the diagonal, no alert
C4_Witness ==
    \E c \in Ids :
        /\ out[c].op = "process" /\ out[c].ret /\ out[c].msgs = <<>>
        /\ agent[c].roi_line = LineDiag
        /\ c \in DOMAIN streams /\ streams[c].boxes > 0
        /\ agent[c].last_alert_time # 0
        /\ now - agent[c].last_alert_time <= Cooldown
        /\ now > agent[c].last_alert_time

\* the record add_alert puts in front of the log
Record(cam_name, message) == [camera |-> cam_name, message |-> message, time |-> FormatTime(now)]

\* C3 as stated: the alert log grows only in a process() call with a line
\* configured, the cooldown elapsed and a surviving region on the line.
C3_OnlyTripwireAddsAlerts ==
    [][alerts' # alerts =>
         \E c \in Ids :
             /\ out'[c].op = "process"
             /\ Len(agent[c].roi_line) = 4
             /\ now - agent[c].last_alert_time > Cooldown
             /\ Crossing(agent[c], out'[c].image)
    ]_vars

\* C3, amended: the alert log changes only by one record put in front of it,
\* either the tripwire record of a process() call with a line configured, the
\* cooldown elapsed and a surviving region on the line, or the "Snapshot
\* saved" record of a captureSnapshot() whose frame read succeeded; start,
\* stop, toggle, setSensitivity and setRoi never change it.
C3_AlertSources ==
    [][alerts' # alerts =>
         \E c \in Ids :
             \/ /\ out'[c].op = "process"
                /\ Len(agent[c].roi_line) = 4
                /\ now - agent[c].last_alert_time > Cooldown
                /\ Crossing(agent[c], out'[c].image)
                /\ Len(out'[c].msgs) = 1 /\ IsTripwire(out'[c].msgs[1])
                /\ alerts' = <<Record(agent[c].name, out'[c].msgs[1])>> \o alerts
             \/ /\ out'[c].op = "snapshot"
                /\ out'[c].ret
                /\ agent[c].active /\ agent[c].cap.opened
                /\ alerts' = <<Record(agent[c].name, SnapshotMsg(agent[c].name, now))>> \o alerts
    ]_vars

\* a log holding a snapshot record on top of a tripwire record
C3_Witness ==
    /\ Len(alerts) = 2
    /\ alerts[1].message.kind = "snapshot"
    /\ IsTripwire(alerts[2].message)
    /\ \E c \in Ids : out[c].op = "snapshot" /\ out[c].ret

\* C5: an agent holds a capture exactly while it is active, and has none
\* right after stop().
C5_HandleIffActive ==
    \A c \in Ids :
        /\ agent[c].cap.present <=> agent[c].active
        /\ out[c].op = "stop" => ~agent[c].cap.present /\ ~agent[c].active
        /\ ~agent[c].cap.present => agent[c].cap = NoCap

\* an agent stopped after it has processed frames
C5_Witness ==
    \E c \in Ids :
        /\ out[c].op = "stop" /\ ~agent[c].active /\ ~agent[c].cap.present
        /\ agent[c].prev_frame # 0

\* C6: start() on a Running agent changes nothing, and stop() on a Stopped
\* agent changes nothing and emits nothing to the image sink.
C6_StartStopNoOp ==
    [][\A c \in Ids :
         /\ (out'[c].op = "start" /\ agent[c].active) =>
               /\ agent' = agent /\ streams' = streams /\ alerts' = alerts
               /\ out'[c].emits = 0
         /\ (out'[c].op = "stop" /\ ~agent[c].active) =>
               /\ agent' = agent /\ streams' = streams /\ alerts' = alerts
               /\ out'[c].emits = 0
    ]_vars

\* C7: a process() call on a Stopped agent reads nothing, emits nothing and
\* changes nothing; the sink still serves the placeholder frame of stop().
C7_ProcessAfterStop ==
    [][\A c \in Ids : (out'[c].op = "process" /\ ~agent[c].active) =>
         /\ agent'[c] = agent[c]
         /\ streams' = streams
         /\ alerts' = alerts
         /\ out'[c] = [Idle EXCEPT !.op = "process"]
         /\ requestImage(streams', c) = black_frame
    ]_vars

\* a process() call on an agent that was stopped after processing frames
C7_Witness ==
    \E c \in Ids :
        /\ out[c].op = "process" /\ ~agent[c].active
        /\ agent[c].prev_frame # 0
        /\ c \in DOMAIN streams /\ streams[c] = black_frame

\* C8: a process() call on a Running agent emits exactly one frame to the
\* image sink when its read succeeds, the warm-up frame included, with the
\* line drawn when one is configured, and no frame when the read fails.
C8_FramePerSuccessfulRead ==
    [][\A c \in Ids : out'[c].op = "process" =>
         /\ out'[c].ret =>
               /\ out'[c].emits = 1
               /\ c \in DOMAIN streams'
               /\ streams'[c].kind = "frame"
               /\ streams'[c].scene = out'[c].image
               /\ streams'[c].line = (Len(agent[c].roi_line) = 4)
         /\ ~out'[c].ret => out'[c].emits = 0 /\ streams' = streams
    ]_vars

\* C9: the first successful process() after a start() that opened the source
\* finds prev_frame absent, boxes no region and emits no alert.
C9_WarmUpAfterEveryStart ==
    [][\A c \in Ids :
         (/\ out[c].op = "start" /\ out[c].ret
          /\ out'[c].op = "process" /\ out'[c].ret) =>
               /\ agent[c].prev_frame = 0
               /\ out'[c].msgs = <<>>
    ]_vars

\* a running agent reading a file
ReadingFile(c) == IsSeekable(agent[c].source) /\ CanProcess(agent[c])

\* C10 as stated: on an N-frame file the k-th process() call handles frame
\* ((k-1) mod N)+1: the first call after start() handles frame 1 and the call
\* after the one that handled frame f handles frame (f mod N)+1.
C10_LoopOrderNoGap ==
    [][\A c \in Ids : (ReadingFile(c) /\ out'[c].op = "process") =>
         /\ (out[c].op = "start" /\ out[c].ret) => out'[c].frame = 1
         /\ (out[c].op = "process" /\ out[c].frame # 0) =>
               out'[c].frame = (out[c].frame % FileLen) + 1
    ]_vars

\* C10, amended: consecutive process() calls of a Running agent on an
\* N-frame file handle frames 1, 2, .., N, then one call handles no frame
\* (the read fails at the end of the file and the call rewinds), then
\* 1, 2, .. again: 3 frames and 5 calls give [1, 2, 3, none, 1].
C10_LoopOrder ==
    [][\A c \in Ids : (ReadingFile(c) /\ out'[c].op = "process") =>
         /\ (out[c].op = "start" /\ out[c].ret) => out'[c].frame = 1
         /\ (out[c].op = "process" /\ out[c].frame # 0 /\ out[c].frame < FileLen) =>
               out'[c].frame = out[c].frame + 1
         /\ (out[c].op = "process" /\ out[c].frame = FileLen) =>
               /\ out'[c].frame = 0 /\ ~out'[c].ret /\ out'[c].rewound
               /\ out'[c].emits = 0
         /\ (out[c].op = "process" /\ out[c].rewound) => out'[c].frame = 1
    ]_vars

\* frame 1 handled again by the call that follows the rewinding call
C10_Witness ==
    \E c \in Ids :
        /\ IsSeekable(agent[c].source)
        /\ out[c].op = "process" /\ out[c].frame = 1 /\ out[c].emits = 1
        /\ agent[c].frame_count = FileLen
        /\ c \in DOMAIN streams /\ streams[c].scene = FrameImage(1)

\* C11 as stated: toggleCamera with an id that names no camera hands
\* UnknownCamera back to its caller and changes no agent and neither sink.
C11_UnknownCameraReturned ==
    [][call'.op = "toggleCamera" /\ call'.id \notin Ids
         => /\ call'.result = "UnknownCamera"
            /\ agent' = agent /\ streams' = streams /\ alerts' = alerts]_vars

\* C11: toggleCamera with an id that names no camera is silently ignored: it
\* returns nothing to its caller (None, no error value) and changes no agent,
\* no served image and no logged alert.
C11_UnknownIdIgnored ==
    [][call'.op = "toggleCamera" /\ call'.id \notin Ids
         => /\ call'.result = "None"
            /\ agent' = agent /\ streams' = streams /\ alerts' = alerts]_vars

C11_Witness ==
    /\ call.op = "toggleCamera" /\ call.id \notin Ids
    /\ \E c \in Ids : agent[c].active /\ agent[c].prev_frame # 0
    /\ alerts # <<>>

\* C12 as stated: a sweep of update_all calls process() once on every agent,
\* also when the process() of an earlier agent raises.
C12_SweepReachesEveryAgent ==
    [][call'.op = "update_all" => \A c \in Ids : out'[c].op = "process"]_vars

\* C13 as stated: every configuration entry that has its id, name and source
\* has an agent, whatever entries come before or after it; an entry that
\* lacks one of them has none.
C13_EveryValidEntryLoaded ==
    \A i \in 1..Len(cameras) :
        IF IsValidEntry(cameras[i])
        THEN cameras[i].id \in Ids /\ agent[cameras[i].id].name = cameras[i].name
        ELSE "id" \in DOMAIN cameras[i] => cameras[i].id \notin Ids

\* the records of the messages msgs of one camera, the last message first
Newest(cam_name, msgs) ==
    [j \in 1..Len(msgs) |-> Record(cam_name, msgs[Len(msgs) + 1 - j])]

\* the records of one sweep, as the log shows them: the agents from the last
\* of the dict to the first
RECURSIVE SweepRecords(_, _)
SweepRecords(i, o) ==
    IF i > Len(order) THEN <<>>
    ELSE SweepRecords(i + 1, o) \o Newest(agent[order[i]].name, o[order[i]].msgs)

\* C15: the alerts of one sweep reach the log in the order in which the dict
\* lists their agents, that order never changes, and the log is
\* most-recent-first: every step leaves the earlier records as they were, in
\* their order, behind the new ones.
C15_AlertOrder ==
    [][/\ order' = order
       /\ call'.op = "update_all" => alerts' = SweepRecords(1, out') \o alerts
       /\ Len(alerts') >= Len(alerts)
       /\ alerts = SubSeq(alerts', Len(alerts') - Len(alerts) + 1, Len(alerts'))]_vars

C15_Witness ==
    /\ call.op = "update_all"
    /\ Len(order) = 2
    /\ \A c \in Ids : out[c].msgs # <<>>
    /\ Len(alerts) = 2
    /\ alerts[1].camera = agent[order[2]].name
    /\ alerts[2].camera = agent[order[1]].name

\* the point p1 + (n/d)(p2 - p1) of the segment, d > 0, lies in the closed
\* rectangle
PointInRect(p1, p2, n, d, rect) ==
    LET px == p1[1] * d + n * (p2[1] - p1[1])
        py == p1[2] * d + n * (p2[2] - p1[2])
    IN /\ 0 <= n /\ n <= d
       /\ rect[1] * d <= px /\ px <= (rect[1] + rect[3]) * d
       /\ rect[2] * d <= py /\ py <= (rect[2] + rect[4]) * d

\* the closed segment p1 p2 shares a point with the closed rectangle. The
\* parameters of the shared points form a closed interval; when it is not
\* empty its least element is 0 or a parameter at which the segment meets
\* the line of a side, so these parameters decide the question.
SegmentMeetsRect(p1, p2, rect) ==
    LET dx == p2[1] - p1[1]
        dy == p2[2] - p1[2]
        Sgn(v) == IF v < 0 THEN 0 - 1 ELSE 1
        params == {<<0, 1>>, <<1, 1>>}
                  \cup {<<Sgn(dx) * (c - p1[1]), Sgn(dx) * dx>> :
                           c \in IF dx = 0 THEN {} ELSE {rect[1], rect[1] + rect[3]}}
                  \cup {<<Sgn(dy) * (c - p1[2]), Sgn(dy) * dy>> :
                           c \in IF dy = 0 THEN {} ELSE {rect[2], rect[2] + rect[4]}}
    IN \E q \in params : PointInRect(p1, p2, q[1], q[2], rect)

EndpointInRect(p, rect) ==
    /\ rect[1] <= p[1] /\ p[1] <= rect[1] + rect[3]
    /\ rect[2] <= p[2] /\ p[2] <= rect[2] + rect[4]

\* C14: for every segment with integer end points and every rectangle of
\* positive width and height on the grid, line_intersects_rect is true
\* exactly when the closed segment shares a point with the closed rectangle
\* (so true when an end point is inside, true when an edge is crossed, false
\* otherwise), and line_segment_intersection is false whenever its
\* denominator is zero.
C14_LineCrossesRect ==
    geom.done =>
        /\ geom.result = SegmentMeetsRect(geom.p1, geom.p2, geom.rect)
        /\ (EndpointInRect(geom.p1, geom.rect) \/ EndpointInRect(geom.p2, geom.rect))
              => geom.result
        /\ (\E e \in EdgeNames : geom.edge[e]) => geom.result
        /\ \A e \in EdgeNames :
              Denom(geom.p1, geom.p2, Edges(geom.rect)[e][1], Edges(geom.rect)[e][2]) = 0
                => ~geom.edge[e]

\* a segment along the line of the top side that passes through the whole
\* rectangle with both end points outside
C14_Witness ==
    /\ geom.done /\ geom.result
    /\ ~EndpointInRect(geom.p1, geom.rect) /\ ~EndpointInRect(geom.p2, geom.rect)
    /\ Denom(geom.p1, geom.p2, Edges(geom.rect).top[1], Edges(geom.rect).top[2]) = 0
    /\ geom.p1[2] = geom.rect[2] /\ geom.p2[2] = geom.rect[2]

\* C16: start() makes the agent active and gives it a capture also when the
\* open fails; while the capture is not open the agent stays active until
\* stop(), and every process() call on it reads nothing, emits nothing,
\* changes nothing and raises nothing.
C16_FailedOpenIdles ==
    [][\A c \in Ids :
         /\ (out'[c].op = "start" /\ out'[c].ret)
               => agent'[c].active /\ agent'[c].cap.present
         /\ (agent[c].active /\ ~agent[c].cap.opened /\ out'[c].op # "stop")
               => agent'[c].active /\ ~agent'[c].cap.opened
         /\ (agent[c].active /\ ~agent[c].cap.opened /\ out'[c].op = "process")
               => /\ out'[c] = [Idle EXCEPT !.op = "process"]
                  /\ agent'[c] = agent[c]
                  /\ streams' = streams
                  /\ alerts' = alerts
                  /\ call'.result = "None"]_vars

C16_Witness ==
    \E c \in Ids :
        /\ agent[c].active /\ agent[c].cap.present /\ ~agent[c].cap.opened
        /\ out[c].op = "process"
        /\ call.op = "update_all"

\* C17 as stated: a process() call whose read fails rewinds the capture when
\* the source is a file and only then; on a device index or a network URI
\* (rtsp or any other) it does not reposition the source; in both cases it
\* emits nothing, raises nothing and leaves prev_frame, last_alert_time and
\* the FPS counters as they were.
C17_FailedReadOnLiveSource ==
    [][\A c \in Ids :
         (CanProcess(agent[c]) /\ out'[c].op = "process" /\ ~out'[c].ret)
           => /\ out'[c].rewound = IsSeekable(agent[c].source)
              /\ out'[c].emits = 0 /\ out'[c].msgs = <<>> /\ ~out'[c].raised
              /\ streams' = streams /\ alerts' = alerts
              /\ [agent'[c] EXCEPT !.cap = agent[c].cap] = agent[c]]_vars

C20_InactiveServesBlack ==
    \A c \in Ids : ~agent[c].active => requestImage(streams, c) = black_frame

C20_Witness ==
    \E c \in Ids :
        /\ ~agent[c].active /\ out[c].op = "stop"
        /\ c \in DOMAIN streams
        /\ agent[c].prev_frame # 0 /\ agent[c].frame_count > 0

\* the last call on camera c was a process() whose read delivered a frame
Reads(c) == out[c].op = "process" /\ out[c].ret

\* C19 as stated: while the file camera is running and the timer keeps
\* sweeping (for as long as the sweep is within the bounds of the model),
\* successful reads and emitted frames recur forever, also when
\* take_snapshot calls are interleaved with the sweeps.
C19_LoopsForever ==
    /\ []<>(~ReadingFile(LoopCam) \/ Reads(LoopCam) \/ ~ENABLED Tick)
    /\ []<>(~ReadingFile(LoopCam) \/ out[LoopCam].emits = 1 \/ ~ENABLED Tick)

\* C19: a process() call that directly follows a process() call whose read
\* failed at the end of the file reads frame 1; and if from some point on no
\* take_snapshot is called, successful reads and emitted frames recur
\* forever while the file camera is running and the timer keeps sweeping.
C19_LoopsBetweenSnapshots ==
    /\ [][(ReadingFile(LoopCam) /\ out[LoopCam].op = "process" /\ ~out[LoopCam].ret
             /\ out'[LoopCam].op = "process")
            => out'[LoopCam].ret /\ out'[LoopCam].frame = 1]_vars
    /\ <>[](out[LoopCam].op # "snapshot")
         => /\ []<>(~ReadingFile(LoopCam) \/ Reads(LoopCam) \/ ~ENABLED Tick)
            /\ []<>(~ReadingFile(LoopCam) \/ out[LoopCam].emits = 1 \/ ~ENABLED Tick)

\* frame 1 is read and emitted again after the end of the file was met
C19_Witness ==
    /\ ReadingFile(LoopCam)
    /\ Reads(LoopCam) /\ out[LoopCam].frame = 1 /\ out[LoopCam].emits = 1
    /\ agent[LoopCam].frame_count > 1

====
